---- MODULE Spec2Model ----
(***************************************************************************)
(* A model of darray.h: a header-prefixed, growable array.  One heap block *)
(* holds the header (sizeof elem, length, capacity) followed by `capacity` *)
(* element slots; the handle points at element 0.                          *)
(*                                                                         *)
(* The heap is a finite set of addresses.  An element is one opaque unit   *)
(* of `elsz` bytes, so the byte offsets and byte counts the code computes  *)
(* are kept and turned into slot numbers by dividing by elsz.  Memory that *)
(* malloc/realloc hand out without writing it holds the indeterminate      *)
(* value Undef.                                                            *)
(***************************************************************************)
EXTENDS Integers, Sequences, FiniteSets, TLC

\* ------------------------------------------------------------- bounds
MaxAddr == 2        \* heap addresses 1..MaxAddr
MaxN    == 11       \* largest nelem handed to da_alloc / da_resize / da_reserve
MaxVal  == 2        \* element values 1..MaxVal
MaxOps  == 3        \* API calls of one run of the client
MaxLen  == 3        \* longest array the remove runs start from
NPush   == 15       \* pushes of the growth trace
MaxFree == 2        \* calls other than pushes in a run against the abstract sequence
SizeBits == 16      \* width of size_t, scaled down: every length of the model fits

\* ---------------------------------------------------- program constants
NULL == 0
Undef == 0
DA_CAPACITY_MIN == 10
\* DA_CAPACITY_FACTOR is 1.3, kept as the fraction FactorNum / FactorDen
FactorNum == 13
FactorDen == 10

\* the largest size_t; the length field is a size_t, arithmetic on it is
\* modulo SIZE_MAX + 1
SIZE_MAX == 2^SizeBits - 1

Addrs     == 1..MaxAddr
Values    == 1..MaxVal
Cell      == Values \cup {Undef}
\* sizeof of the element type, as handed to da_alloc: a char and an int.  The
\* typed macros are used with the element type the array was allocated for.
ElemSizes == {1, 4}

VARIABLES
    heap,     \* address -> block (header fields and element slots)
    darr,     \* the caller's handle variable
    backup,   \* the caller's backup variable (da_spush / da_sinsert)
    ret,      \* the value the last call returned
    last,     \* the last call: its name, arguments and outcome
    ub,       \* the undefined behaviour the last call executed, or "none"
    crashed,  \* the process was killed by that undefined behaviour
    nops,     \* calls made so far
    trace,    \* the first allocation and the distinct capacities seen since
    before,   \* what the last call found: the block behind the handle, the call before it
    iter,     \* the traversal under way: its loop, its iterator, the positions visited
    abstract  \* the sequence the calls made so far denote

vars == <<heap, darr, backup, ret, last, ub, crashed, nops, trace, before, iter,
          abstract>>

\* ------------------------------------------------------------ the heap
NoBlock == [live |-> FALSE, elsz |-> 0, length |-> 0, capacity |-> 0, data |-> <<>>]

FreeAddrs(h) == {a \in Addrs : ~h[a].live}

\* What malloc may return: a free address, or NULL.
MallocOutcomes(h) == FreeAddrs(h) \cup {NULL}

\* What malloc(elsz) may return for the scratch element of a remove: NULL, or
\* a block that is freed before the call returns, so that its address shows
\* nowhere.
ScratchOutcomes(h) ==
    IF FreeAddrs(h) = {} THEN {NULL}
    ELSE {NULL, CHOOSE a \in FreeAddrs(h) : \A b \in FreeAddrs(h) : a <= b}

\* What realloc of the block at a may return: NULL (the block is left as it
\* is), the same address, or a free one (the block moves).
ReallocOutcomes(h, a) == FreeAddrs(h) \cup {a, NULL}

\* The slots of a block of nslots elements that keeps the first slots of old.
Slots(old, nslots) ==
    [i \in 0..(nslots - 1) |-> IF i \in DOMAIN old THEN old[i] ELSE Undef]

\* A realloc that copies the header and leaves the elements behind when the
\* block moves.
ReallocLosesElements(h, a, p, nslots) ==
    [x \in Addrs |->
        IF x = p THEN [h[a] EXCEPT !.data = Slots(IF p = a THEN h[a].data ELSE <<>>, nslots)]
        ELSE IF x = a THEN NoBlock
        ELSE h[x]]

\* A successful realloc of the block at a to nslots slots, returned at p: the
\* header and the slots that fit are copied, the old address is released.
Realloc(h, a, p, nslots) ==
    [x \in Addrs |->
        IF x = p THEN [h[a] EXCEPT !.data = Slots(h[a].data, nslots)]
        ELSE IF x = a THEN NoBlock
        ELSE h[x]]

\* ------------------------------------------------------------ accessors
da_length(h, d)      == h[d].length
da_capacity(h, d)    == h[d].capacity
da_sizeof_elem(h, d) == h[d].elsz

ValidHandle(h, d) == d \in Addrs /\ h[d].live

\* An out-of-range double converted to size_t is not reached: lengths stay
\* far below 2^49, where (size_t)(length * 1.3) is floor(13 * length / 10).
MulFactorRoundsUp(length) == (length * FactorNum + FactorDen - 1) \div FactorDen
MulFactor(length) == (length * FactorNum) \div FactorDen

\* DA_NEW_CAPACITY_FROM_LENGTH without the factor.
NewCapacityNoFactor(length) ==
    IF length < DA_CAPACITY_MIN THEN DA_CAPACITY_MIN ELSE length

NewCapacityOffByOne(length) ==
    IF length <= DA_CAPACITY_MIN THEN DA_CAPACITY_MIN ELSE MulFactor(length)
DA_NEW_CAPACITY_FROM_LENGTH(length) ==
    IF length < DA_CAPACITY_MIN THEN DA_CAPACITY_MIN ELSE MulFactor(length)

\* ------------------------------------------------------------- da_alloc
\* da_alloc that computes the capacity from size instead of nelem.
da_allocCapacityFromSize(h, nelem, size, mem) ==
    LET capacity == DA_NEW_CAPACITY_FROM_LENGTH(size) IN
    IF mem = NULL
    THEN [ret |-> NULL, heap |-> h]
    ELSE [ret |-> mem,
          heap |-> [h EXCEPT ![mem] =
                      [live |-> TRUE, elsz |-> size, length |-> nelem,
                       capacity |-> capacity, data |-> Slots(<<>>, capacity)]]]

\* mem is malloc's result.
da_alloc(h, nelem, size, mem) ==
    LET capacity == DA_NEW_CAPACITY_FROM_LENGTH(nelem) IN
    IF mem = NULL
    THEN [ret |-> NULL, heap |-> h]
    ELSE [ret |-> mem,
          heap |-> [h EXCEPT ![mem] =
                      [live |-> TRUE, elsz |-> size, length |-> nelem,
                       capacity |-> capacity, data |-> Slots(<<>>, capacity)]]]

\* ------------------------------------------------------------ da_resize
\* da_resize without the store to the capacity field.
da_resizeKeepsCapacity(h, d, nelem, ptr) ==
    LET new_capacity == DA_NEW_CAPACITY_FROM_LENGTH(nelem) IN
    IF ptr = NULL
    THEN [ret |-> NULL, heap |-> h]
    ELSE [ret |-> ptr,
          heap |-> [Realloc(h, d, ptr, new_capacity) EXCEPT ![ptr].length = nelem]]

\* da_resize with a lazy policy: the block is left alone when its capacity
\* already holds nelem elements.
da_resizeLazy(h, d, nelem, ptr) ==
    LET new_capacity == DA_NEW_CAPACITY_FROM_LENGTH(nelem) IN
    IF ptr = NULL
    THEN [ret |-> NULL, heap |-> h]
    ELSE IF da_capacity(h, d) >= nelem
    THEN [ret |-> d, heap |-> [h EXCEPT ![d].length = nelem]]
    ELSE [ret |-> ptr,
          heap |-> [Realloc(h, d, ptr, new_capacity) EXCEPT
                      ![ptr].capacity = new_capacity,
                      ![ptr].length = nelem]]

\* ptr is realloc's result.
da_resize(h, d, nelem, ptr) ==
    LET new_capacity == DA_NEW_CAPACITY_FROM_LENGTH(nelem) IN
    IF ptr = NULL
    THEN [ret |-> NULL, heap |-> h]
    ELSE [ret |-> ptr,
          heap |-> [Realloc(h, d, ptr, new_capacity) EXCEPT
                      ![ptr].capacity = new_capacity,
                      ![ptr].length = nelem]]

\* ----------------------------------------------------------- da_reserve
\* da_reserve with the length field stored before realloc's result is tested.
da_reserveStoresFirst(h, d, nelem, ptr) ==
    LET curr_capacity == da_capacity(h, d)
        curr_length   == da_length(h, d)
        min_capacity  == curr_length + nelem
        new_capacity  == DA_NEW_CAPACITY_FROM_LENGTH(min_capacity)
    IN  IF curr_capacity >= min_capacity
        THEN [ret |-> d, heap |-> h, realloc |-> FALSE]
        ELSE IF ptr = NULL
        THEN [ret |-> NULL, heap |-> [h EXCEPT ![d].capacity = new_capacity],
              realloc |-> TRUE]
        ELSE [ret |-> ptr,
              heap |-> [Realloc(h, d, ptr, new_capacity) EXCEPT
                          ![ptr].capacity = new_capacity],
              realloc |-> TRUE]

\* da_reserve that reallocates when the capacity is exactly enough.
da_reserveStrict(h, d, nelem, ptr) ==
    LET curr_capacity == da_capacity(h, d)
        curr_length   == da_length(h, d)
        min_capacity  == curr_length + nelem
        new_capacity  == DA_NEW_CAPACITY_FROM_LENGTH(min_capacity)
    IN  IF curr_capacity > min_capacity
        THEN [ret |-> d, heap |-> h, realloc |-> FALSE]
        ELSE IF ptr = NULL
        THEN [ret |-> NULL, heap |-> h, realloc |-> TRUE]
        ELSE [ret |-> ptr,
              heap |-> [Realloc(h, d, ptr, new_capacity) EXCEPT
                          ![ptr].capacity = new_capacity],
              realloc |-> TRUE]

da_reserve(h, d, nelem, ptr) ==
    LET curr_capacity == da_capacity(h, d)
        curr_length   == da_length(h, d)
        min_capacity  == curr_length + nelem
        new_capacity  == DA_NEW_CAPACITY_FROM_LENGTH(min_capacity)
    IN  IF curr_capacity >= min_capacity
        THEN [ret |-> d, heap |-> h, realloc |-> FALSE]
        ELSE IF ptr = NULL
        THEN [ret |-> NULL, heap |-> h, realloc |-> TRUE]
        ELSE [ret |-> ptr,
              heap |-> [Realloc(h, d, ptr, new_capacity) EXCEPT
                          ![ptr].capacity = new_capacity],
              realloc |-> TRUE]


\* ------------------------------------------------------- memory helpers
\* Byte offsets from the handle and byte counts, as the code computes them;
\* every one is a multiple of elsz and names whole slots.
SlotOf(off, elsz) == off \div elsz

\* _da_memswap without tmp: a[i] = b[i]; b[i] = a[i].
_da_memswapNoTmp(data, p1, p2, sz, elsz) ==
    LET a == SlotOf(p1, elsz)
        b == SlotOf(p2, elsz)
        n == SlotOf(sz, elsz)
    IN  [i \in DOMAIN data |->
            IF i >= a /\ i < a + n THEN data[b + (i - a)] ELSE data[i]]

\* _da_memswap(p1, p2, sz): the sz bytes at offsets p1 and p2 change places.
_da_memswap(data, p1, p2, sz, elsz) ==
    LET a == SlotOf(p1, elsz)
        b == SlotOf(p2, elsz)
        n == SlotOf(sz, elsz)
    IN  [i \in DOMAIN data |->
            IF i >= a /\ i < a + n THEN data[b + (i - a)]
            ELSE IF i >= b /\ i < b + n THEN data[a + (i - b)]
            ELSE data[i]]

\* memmove(dst, src, n) and memcpy within one block: n bytes from offset src
\* land at offset dst, overlapping or not.
memmove(data, dst, src, n, elsz) ==
    LET d == SlotOf(dst, elsz)
        s == SlotOf(src, elsz)
        k == SlotOf(n, elsz)
    IN  [i \in DOMAIN data |->
            IF i >= d /\ i < d + k THEN data[s + (i - d)] ELSE data[i]]

\* (darr)[i] = value
Store(data, i, value) == [data EXCEPT ![i] = value]

\* The undefined behaviour of a store to slot i of a block of these slots.
StoreUB(data, i) == IF i \in DOMAIN data THEN "none" ELSE "oob"

\* The undefined behaviour of a read of slot i, and what the read may give:
\* the slot, or whatever lies at that address when it is none of the slots.
LoadUB(data, i) == IF i \in DOMAIN data THEN "none" ELSE "oob"
LoadOutcomes(data, i) == IF i \in DOMAIN data THEN {data[i]} ELSE Cell

\* What undefined behaviour may do to the process: kill it, or let it run on.
CrashOutcomes(u) == IF u = "none" THEN {FALSE} ELSE {TRUE, FALSE}

\* --------------------------------------------------- _da_remove_mem_mov
\* while ((p_curr += elsz) < p_last) _da_memswap(p_curr, p_curr - elsz, elsz)
RECURSIVE BubbleToBack(_, _, _, _)
BubbleToBack(data, p_curr, p_last, elsz) ==
    LET p_next == p_curr + elsz IN
    IF p_next < p_last
    THEN BubbleToBack(_da_memswap(data, p_next, p_next - elsz, elsz, elsz),
                      p_next, p_last, elsz)
    ELSE data

\* The iterations of that loop.
RECURSIVE BubbleSteps(_, _, _)
BubbleSteps(p_curr, p_last, elsz) ==
    IF p_curr + elsz < p_last THEN 1 + BubbleSteps(p_curr + elsz, p_last, elsz) ELSE 0

\* _da_remove_mem_mov whose fallback stops after the first swap.
_da_remove_mem_movNoBubble(h, d, target_index, tmp) ==
    LET length == da_length(h, d)
        elsz   == da_sizeof_elem(h, d)
        data   == h[d].data
    IN  IF tmp # NULL
        THEN LET saved == data[SlotOf(target_index * elsz, elsz)]
                 moved == memmove(data, target_index * elsz,
                                  (target_index + 1) * elsz,
                                  elsz * (length - target_index - 1), elsz)
             IN  Store(moved, SlotOf((length - 1) * elsz, elsz), saved)
        ELSE _da_memswap(data, target_index * elsz, (length - 1) * elsz, elsz, elsz)

\* _da_remove_mem_mov that only swaps the target with the last element.
_da_remove_mem_movSwapsLast(h, d, target_index, tmp) ==
    LET length == da_length(h, d)
        elsz   == da_sizeof_elem(h, d)
    IN  _da_memswap(h[d].data, target_index * elsz, (length - 1) * elsz, elsz, elsz)

\* tmp is the result of malloc(elsz); the slots of the block after the call.
_da_remove_mem_mov(h, d, target_index, tmp) ==
    LET length == da_length(h, d)
        elsz   == da_sizeof_elem(h, d)
        data   == h[d].data
    IN  IF tmp # NULL
        THEN \* tmp = arr[target]; shift the rest down; arr[length-1] = tmp
             LET saved == data[SlotOf(target_index * elsz, elsz)]
                 moved == memmove(data, target_index * elsz,
                                  (target_index + 1) * elsz,
                                  elsz * (length - target_index - 1), elsz)
             IN  Store(moved, SlotOf((length - 1) * elsz, elsz), saved)
        ELSE LET p_curr == target_index * elsz
                 p_last == (length - 1) * elsz
             IN  BubbleToBack(_da_memswap(data, p_curr, p_last, elsz, elsz),
                              p_curr, p_last, elsz)

\* ------------------------------------------------------------- _da_push
\* ptr is the result of the realloc inside da_resize, when it is called.
_da_push(h, d, value, ptr) ==
    LET len  == da_length(h, d)
        grew == len = da_capacity(h, d)
        r    == IF grew THEN da_resize(h, d, len, ptr) ELSE [ret |-> d, heap |-> h]
        d1   == r.ret
    IN  IF d1 = NULL
        THEN \* *__p_len and (darr)[...] go through the NULL handle
             [darr |-> NULL, heap |-> r.heap, ub |-> "null", grew |-> grew]
        ELSE LET len1 == da_length(r.heap, d1) IN
             [darr |-> d1,
              heap |-> [r.heap EXCEPT
                          ![d1].data = IF len1 \in DOMAIN @ THEN Store(@, len1, value) ELSE @,
                          ![d1].length = len1 + 1],
              ub |-> StoreUB(r.heap[d1].data, len1),
              grew |-> grew]

\* -------------------------------------------------------- _da_safe_push
\* _da_safe_push without (backup) = (darr).
_da_safe_pushNoBackup(h, d, value, bkp, ptr) ==
    LET r == _da_push(h, d, value, ptr) IN
    [darr |-> r.darr, backup |-> bkp, heap |-> r.heap,
     ub |-> IF r.darr = NULL THEN "none" ELSE r.ub, grew |-> r.grew]

_da_safe_push(h, d, value, bkp, ptr) ==
    LET len  == da_length(h, d)
        grew == len = da_capacity(h, d)
        r    == IF grew THEN da_resize(h, d, len, ptr) ELSE [ret |-> d, heap |-> h]
        d1   == r.ret
        bkp1 == IF grew THEN d ELSE bkp
    IN  IF d1 = NULL
        THEN \* break: __p_len was recomputed from the NULL handle, but nothing
             \* is read or written through it
             [darr |-> NULL, backup |-> bkp1, heap |-> r.heap, ub |-> "none",
              grew |-> grew]
        ELSE LET len1 == da_length(r.heap, d1) IN
             [darr |-> d1, backup |-> bkp1,
              heap |-> [r.heap EXCEPT
                          ![d1].data = IF len1 \in DOMAIN @ THEN Store(@, len1, value) ELSE @,
                          ![d1].length = len1 + 1],
              ub |-> StoreUB(r.heap[d1].data, len1),
              grew |-> grew]

\* -------------------------------------------------------------- _da_pop
\* _da_pop that reads the last element without storing the new length.
_da_popKeepsLength(h, d) ==
    LET len1 == da_length(h, d) - 1 IN
    [ret |-> h[d].data[len1], heap |-> h]

\* (darr)[--length]: the length field is decremented as a size_t, 0 wraps to
\* SIZE_MAX, and the slot it then names is read.  rets are the values that
\* read may give; ret is the one it gives when the slot is one of the block.
_da_pop(h, d) ==
    LET len1 == (da_length(h, d) - 1) % (SIZE_MAX + 1)
        data == h[d].data
    IN  [ret |-> IF len1 \in DOMAIN data THEN data[len1] ELSE Undef,
         rets |-> LoadOutcomes(data, len1),
         heap |-> [h EXCEPT ![d].length = len1],
         ub |-> LoadUB(data, len1)]

\* ----------------------------------------------------------- _da_insert
\* The insert that stores the value before it moves the tail.
InsertShiftStoresFirst(h1, d1, index, value) ==
    LET len1 == da_length(h1, d1)
        elsz == da_sizeof_elem(h1, d1)
        data == h1[d1].data
        fits == len1 \in DOMAIN data
        moved == memmove(Store(data, index, value), (index + 1) * elsz,
                         index * elsz, elsz * (len1 - index), elsz)
    IN  [heap |-> [h1 EXCEPT
                     ![d1].data = IF fits THEN moved ELSE @,
                     ![d1].length = len1 + 1],
         ub |-> StoreUB(data, len1)]

\* The shift and the store shared by _da_insert and _da_safe_insert, on the
\* block at d1 once capacity was seen to.
InsertShift(h1, d1, index, value) ==
    LET len1 == da_length(h1, d1)
        elsz == da_sizeof_elem(h1, d1)
        data == h1[d1].data
        fits == len1 \in DOMAIN data
        moved == memmove(data, (index + 1) * elsz, index * elsz,
                         elsz * (len1 - index), elsz)
    IN  [heap |-> [h1 EXCEPT
                     ![d1].data = IF fits THEN Store(moved, index, value) ELSE @,
                     ![d1].length = len1 + 1],
         ub |-> StoreUB(data, len1)]

_da_insert(h, d, index, value, ptr) ==
    LET len  == da_length(h, d)
        grew == len = da_capacity(h, d)
        r    == IF grew THEN da_resize(h, d, len, ptr) ELSE [ret |-> d, heap |-> h]
        d1   == r.ret
    IN  IF d1 = NULL
        THEN \* memmove, the store and (*__p_len)++ go through the NULL handle
             [darr |-> NULL, heap |-> r.heap, ub |-> "null", grew |-> grew]
        ELSE LET s == InsertShift(r.heap, d1, index, value) IN
             [darr |-> d1, heap |-> s.heap, ub |-> s.ub, grew |-> grew]

\* ------------------------------------------------------ _da_safe_insert
\* _da_safe_insert with (backup) = (darr) ahead of the capacity test.
_da_safe_insertAlwaysBacksUp(h, d, index, value, bkp, ptr) ==
    LET len  == da_length(h, d)
        grew == len = da_capacity(h, d)
        r    == IF grew THEN da_resize(h, d, len, ptr) ELSE [ret |-> d, heap |-> h]
        d1   == r.ret
    IN  IF d1 = NULL
        THEN [darr |-> NULL, backup |-> d, heap |-> r.heap, ub |-> "none",
              grew |-> grew]
        ELSE LET s == InsertShift(r.heap, d1, index, value) IN
             [darr |-> d1, backup |-> d, heap |-> s.heap, ub |-> s.ub,
              grew |-> grew]

_da_safe_insert(h, d, index, value, bkp, ptr) ==
    LET len  == da_length(h, d)
        grew == len = da_capacity(h, d)
        r    == IF grew THEN da_resize(h, d, len, ptr) ELSE [ret |-> d, heap |-> h]
        d1   == r.ret
        bkp1 == IF grew THEN d ELSE bkp
    IN  IF d1 = NULL
        THEN [darr |-> NULL, backup |-> bkp1, heap |-> r.heap, ub |-> "none",
              grew |-> grew]
        ELSE LET s == InsertShift(r.heap, d1, index, value) IN
             [darr |-> d1, backup |-> bkp1, heap |-> s.heap, ub |-> s.ub,
              grew |-> grew]

\* ----------------------------------------------------------- _da_remove
\* _da_remove that returns (darr)[index] after the move.
_da_removeReturnsIndex(h, d, index, tmp) ==
    LET moved == _da_remove_mem_mov(h, d, index, tmp)
        len1  == da_length(h, d) - 1
    IN  [ret |-> moved[index],
         heap |-> [h EXCEPT ![d].data = moved, ![d].length = len1]]

\* _da_remove that gives the freed slot back: the capacity drops by one.
_da_removeShrinks(h, d, index, tmp) ==
    LET moved == _da_remove_mem_mov(h, d, index, tmp)
        len1  == da_length(h, d) - 1
    IN  [ret |-> moved[len1],
         heap |-> [h EXCEPT ![d].data = moved, ![d].length = len1,
                            ![d].capacity = @ - 1]]

\* _da_remove that reads the last element without storing the new length.
_da_removeKeepsLength(h, d, index, tmp) ==
    LET moved == _da_remove_mem_mov(h, d, index, tmp)
        len1  == da_length(h, d) - 1
    IN  [ret |-> moved[len1], heap |-> [h EXCEPT ![d].data = moved]]

\* _da_remove_mem_mov(darr, index), then (darr)[--length]
_da_remove(h, d, index, tmp) ==
    LET moved == _da_remove_mem_mov(h, d, index, tmp)
        len1  == da_length(h, d) - 1
    IN  [ret |-> moved[len1],
         heap |-> [h EXCEPT ![d].data = moved, ![d].length = len1]]

\* ------------------------------------------------------------- _da_fill
_da_fill(h, d, value) ==
    LET len == da_length(h, d) IN
    [h EXCEPT ![d].data = [i \in DOMAIN @ |-> IF i < len THEN value ELSE @[i]]]

\* -------------------------------------------------------------- da_swap
da_swap(h, d, index_a, index_b) ==
    LET size == da_sizeof_elem(h, d) IN
    [h EXCEPT ![d].data = _da_memswap(@, index_a * size, index_b * size, size, size)]

\* -------------------------------------------- _da_foreach, _da_foreachr
\* itername is a pointer to ELEM_TYPE, kept as its distance from the handle
\* in elements.  Addresses are computed modulo the width of a pointer and the
\* handle lies more than one element above address 0, so &(darr)[length - 1]
\* with length = 0, where length - 1 wraps to the largest size_t, and
\* itername-- at the handle both give the address one element below the
\* handle: the distance -1, which is what every build compares with darr.
\* for (itername = darr; itername < (darr) + da_length(darr); itername++)
_da_foreach_init(h, d) == 0
_da_foreach_cond(h, d, itername) == itername < da_length(h, d)
_da_foreach_next(itername) == itername + 1

\* _da_foreachr that starts at &(darr)[length].
_da_foreachr_initAtLength(h, d) == da_length(h, d)

\* for (itername = &(darr)[da_length(darr)-1]; itername >= (darr); itername--)
_da_foreachr_init(h, d) == da_length(h, d) - 1
_da_foreachr_cond(h, d, itername) == itername >= 0
_da_foreachr_next(itername) == itername - 1

\* ---------------------------------------------------------- the calls
\* Each XxxOp is one call of the API by the client, on the client's handle
\* variable; the wrappers below add the bookkeeping of each specification.
Call(op, a, b, v, res, grew) ==
    [op |-> op, a |-> a, b |-> b, v |-> v, res |-> res, grew |-> grew]

\* darr = da_alloc(nelem, size)
AllocOp(sizes) ==
    /\ darr = NULL
    /\ \E nelem \in sizes, size \in ElemSizes, mem \in MallocOutcomes(heap) :
          LET r == da_alloc(heap, nelem, size, mem) IN
          /\ heap' = r.heap
          /\ ret' = r.ret
          /\ darr' = r.ret
          /\ last' = Call("alloc", nelem, size, Undef,
                          IF mem = NULL THEN "fail" ELSE "ok", FALSE)
    /\ UNCHANGED <<backup, ub, crashed>>

\* tmp = da_resize(darr, nelem); the caller takes the new handle unless it
\* is NULL.
ResizeOp ==
    /\ ValidHandle(heap, darr)
    /\ \E nelem \in 0..MaxN, ptr \in ReallocOutcomes(heap, darr) :
          LET r == da_resize(heap, darr, nelem, ptr) IN
          /\ heap' = r.heap
          /\ ret' = r.ret
          /\ darr' = IF r.ret = NULL THEN darr ELSE r.ret
          /\ last' = Call("resize", nelem, 0, Undef,
                          IF ptr = NULL THEN "fail" ELSE "ok", TRUE)
    /\ UNCHANGED <<backup, ub, crashed>>

\* tmp = da_reserve(darr, nelem), taken the same way.
ReserveOp ==
    /\ ValidHandle(heap, darr)
    /\ \E nelem \in 0..MaxN, ptr \in ReallocOutcomes(heap, darr) :
          LET r == da_reserve(heap, darr, nelem, ptr) IN
          \* realloc's result matters only when realloc is called
          /\ r.realloc \/ ptr = NULL
          /\ heap' = r.heap
          /\ ret' = r.ret
          /\ darr' = IF r.ret = NULL THEN darr ELSE r.ret
          /\ last' = Call("reserve", nelem, 0, Undef,
                          IF ~r.realloc THEN "noop"
                          ELSE IF ptr = NULL THEN "fail" ELSE "ok", r.realloc)
    /\ UNCHANGED <<backup, ub, crashed>>

\* The realloc results a call may see, among those allowed; the result
\* matters only on the growth path.
GrowthOutcomes(h, d, allowed) ==
    IF da_length(h, d) = da_capacity(h, d)
    THEN ReallocOutcomes(h, d) \cap allowed
    ELSE {NULL}

AnyOutcome == Addrs \cup {NULL}

AllocRes(h, d, ptr) ==
    IF da_length(h, d) # da_capacity(h, d) THEN "ok"
    ELSE IF ptr = NULL THEN "fail" ELSE "ok"

\* da_push(darr, value), with realloc's result among outcomes
PushOp(values, outcomes) ==
    /\ ValidHandle(heap, darr)
    /\ \E value \in values, ptr \in GrowthOutcomes(heap, darr, outcomes) :
          LET r == _da_push(heap, darr, value, ptr) IN
          /\ heap' = r.heap
          /\ darr' = r.darr
          /\ ub' = r.ub
          /\ last' = Call("push", 0, 0, value, AllocRes(heap, darr, ptr), r.grew)
    /\ crashed' \in CrashOutcomes(ub')
    /\ ret' = NULL
    /\ UNCHANGED backup

\* da_spush(darr, value, backup)
SafePushOp ==
    /\ ValidHandle(heap, darr)
    /\ \E value \in Values, ptr \in GrowthOutcomes(heap, darr, AnyOutcome) :
          LET r == _da_safe_push(heap, darr, value, backup, ptr) IN
          /\ heap' = r.heap
          /\ darr' = r.darr
          /\ backup' = r.backup
          /\ ub' = r.ub
          /\ last' = Call("spush", 0, 0, value, AllocRes(heap, darr, ptr), r.grew)
    /\ crashed' \in CrashOutcomes(ub')
    /\ ret' = NULL

\* ret = da_pop(darr), called with length >= 1
PopOp ==
    /\ ValidHandle(heap, darr)
    /\ da_length(heap, darr) >= 1
    /\ LET r == _da_pop(heap, darr) IN
          /\ heap' = r.heap
          /\ ret' = r.ret
    /\ last' = Call("pop", 0, 0, Undef, "ok", FALSE)
    /\ UNCHANGED <<darr, backup, ub, crashed>>

\* ret = da_pop(darr), called on any array, empty or not
PopAnyOp ==
    /\ ValidHandle(heap, darr)
    /\ LET r == _da_pop(heap, darr) IN
          /\ heap' = r.heap
          /\ ret' \in r.rets
          /\ ub' = r.ub
    /\ crashed' \in CrashOutcomes(ub')
    /\ last' = Call("pop", 0, 0, Undef, "ok", FALSE)
    /\ UNCHANGED <<darr, backup>>

\* da_insert(darr, index, value), called with 0 <= index <= length, with
\* realloc's result among outcomes
InsertOp(values, outcomes) ==
    /\ ValidHandle(heap, darr)
    /\ \E index \in 0..da_length(heap, darr), value \in values,
          ptr \in GrowthOutcomes(heap, darr, outcomes) :
          LET r == _da_insert(heap, darr, index, value, ptr) IN
          /\ heap' = r.heap
          /\ darr' = r.darr
          /\ ub' = r.ub
          /\ last' = Call("insert", index, 0, value, AllocRes(heap, darr, ptr), r.grew)
    /\ crashed' \in CrashOutcomes(ub')
    /\ ret' = NULL
    /\ UNCHANGED backup

\* da_sinsert(darr, index, value, backup)
SafeInsertOp ==
    /\ ValidHandle(heap, darr)
    /\ \E index \in 0..da_length(heap, darr), value \in Values,
          ptr \in GrowthOutcomes(heap, darr, AnyOutcome) :
          LET r == _da_safe_insert(heap, darr, index, value, backup, ptr) IN
          /\ heap' = r.heap
          /\ darr' = r.darr
          /\ backup' = r.backup
          /\ ub' = r.ub
          /\ last' = Call("sinsert", index, 0, value, AllocRes(heap, darr, ptr), r.grew)
    /\ crashed' \in CrashOutcomes(ub')
    /\ ret' = NULL

\* ret = da_remove(darr, index), called with 0 <= index < length.  tmp is the
\* result of malloc(elsz) inside _da_remove_mem_mov; the scratch block is
\* freed before the call returns.
RemoveOp ==
    /\ ValidHandle(heap, darr)
    /\ \E index \in 0..(da_length(heap, darr) - 1), tmp \in ScratchOutcomes(heap) :
          LET r == _da_remove(heap, darr, index, tmp) IN
          /\ heap' = r.heap
          /\ ret' = r.ret
          /\ last' = Call("remove", index, 0, Undef,
                          IF tmp = NULL THEN "swap" ELSE "scratch", FALSE)
    /\ UNCHANGED <<darr, backup, ub, crashed>>

\* da_fill(darr, VALUE_TYPE, value)
FillOp ==
    /\ ValidHandle(heap, darr)
    /\ \E value \in Values :
          /\ heap' = _da_fill(heap, darr, value)
          /\ last' = Call("fill", 0, 0, value, "ok", FALSE)
    /\ ret' = NULL
    /\ UNCHANGED <<darr, backup, ub, crashed>>

\* da_swap(darr, index_a, index_b), called with both indices < length
SwapOp ==
    /\ ValidHandle(heap, darr)
    /\ \E index_a \in 0..(da_length(heap, darr) - 1),
          index_b \in 0..(da_length(heap, darr) - 1) :
          /\ heap' = da_swap(heap, darr, index_a, index_b)
          /\ last' = Call("swap", index_a, index_b, Undef, "ok", FALSE)
    /\ ret' = NULL
    /\ UNCHANGED <<darr, backup, ub, crashed>>

\* ------------------------------------------------- Spec: a bounded client
\* A client that starts with no array and makes at most MaxOps calls, each
\* with its preconditions respected; every allocation may fail.
Running == ~crashed /\ nops < MaxOps
Counted == nops' = nops + 1 /\ UNCHANGED <<trace, before, iter, abstract>>

Alloc      == Running /\ AllocOp(0..MaxN) /\ Counted
Resize     == Running /\ ResizeOp /\ Counted
Reserve    == Running /\ ReserveOp /\ Counted
Push       == Running /\ PushOp(Values, AnyOutcome) /\ Counted
SafePush   == Running /\ SafePushOp /\ Counted
Pop        == Running /\ PopOp /\ Counted
Insert     == Running /\ InsertOp(Values, AnyOutcome) /\ Counted
SafeInsert == Running /\ SafeInsertOp /\ Counted
Remove     == Running /\ RemoveOp /\ Counted
Fill       == Running /\ FillOp /\ Counted
Swap       == Running /\ SwapOp /\ Counted

NoTrace == [n |-> 0, size |-> 0, caps |-> <<>>]
NoIter == [loop |-> "none", itername |-> 0, seen |-> <<>>, done |-> FALSE]
Nothing == [block |-> NoBlock, call |-> Call("init", 0, 0, Undef, "ok", FALSE)]

Init ==
    /\ heap = [a \in Addrs |-> NoBlock]
    /\ darr = NULL
    /\ backup = NULL
    /\ ret = NULL
    /\ last = Call("init", 0, 0, Undef, "ok", FALSE)
    /\ ub = "none"
    /\ crashed = FALSE
    /\ nops = 0
    /\ trace = NoTrace
    /\ before = Nothing
    /\ iter = NoIter
    /\ abstract = <<>>

Next ==
    \/ Alloc
    \/ Resize
    \/ Reserve
    \/ Push
    \/ SafePush
    \/ Pop
    \/ Insert
    \/ SafeInsert
    \/ Remove
    \/ Fill
    \/ Swap

Spec == Init /\ [][Next]_vars

\* ------------------------------------------- SpecData: short arrays, any depth
\* The calls that move elements, on an array that was allocated with at most
\* MaxLen elements and is kept at most MaxLen long, to any depth.  No call
\* reallocates here, so the block stays where malloc put it: at address 1.
Short == ~crashed /\ ValidHandle(heap, darr) /\ da_length(heap, darr) < MaxLen
Uncounted == UNCHANGED <<nops, trace, before, iter, abstract>>

InitData ==
    /\ \E nelem \in 0..MaxLen, size \in ElemSizes, mem \in {1} :
          LET r == da_alloc([a \in Addrs |-> NoBlock], nelem, size, mem) IN
          /\ heap = r.heap
          /\ darr = r.ret
          /\ ret = r.ret
          /\ last = Call("alloc", nelem, size, Undef, "ok", FALSE)
    /\ backup = NULL
    /\ ub = "none"
    /\ crashed = FALSE
    /\ nops = 0
    /\ trace = NoTrace
    /\ before = Nothing
    /\ iter = NoIter
    /\ abstract = <<>>

DataPush       == Short /\ PushOp(Values, AnyOutcome) /\ Uncounted
DataSafePush   == Short /\ SafePushOp /\ Uncounted
DataInsert     == Short /\ InsertOp(Values, AnyOutcome) /\ Uncounted
DataSafeInsert == Short /\ SafeInsertOp /\ Uncounted
DataPop        == PopOp /\ Uncounted
DataRemove     == RemoveOp /\ Uncounted
DataFill       == FillOp /\ Uncounted
DataSwap       == SwapOp /\ Uncounted

NextData ==
    \/ DataPush
    \/ DataSafePush
    \/ DataInsert
    \/ DataSafeInsert
    \/ DataPop
    \/ DataRemove
    \/ DataFill
    \/ DataSwap

SpecData == InitData /\ [][NextData]_vars

\* --------------------------------------- SpecPush: pushes, allocations succeed
\* da_alloc(nelem, size) and then NPush calls of da_push, every allocation
\* succeeding; trace keeps the distinct capacities in the order they are seen.
Seen(caps, capacity) ==
    IF capacity = caps[Len(caps)] THEN caps ELSE Append(caps, capacity)

InitPush ==
    /\ \E nelem \in 0..MaxN, size \in ElemSizes, mem \in Addrs :
          LET r == da_alloc([a \in Addrs |-> NoBlock], nelem, size, mem) IN
          /\ heap = r.heap
          /\ darr = r.ret
          /\ ret = r.ret
          /\ last = Call("alloc", nelem, size, Undef, "ok", FALSE)
          /\ trace = [n |-> nelem, size |-> size,
                      caps |-> <<da_capacity(r.heap, r.ret)>>]
    /\ backup = NULL
    /\ ub = "none"
    /\ crashed = FALSE
    /\ nops = 0
    /\ before = Nothing
    /\ iter = NoIter
    /\ abstract = <<>>

\* The i-th push pushes the value i (mod the number of values).
TracePush ==
    /\ nops < NPush
    /\ PushOp({(nops % MaxVal) + 1}, Addrs)
    /\ nops' = nops + 1
    /\ trace' = [trace EXCEPT !.caps = Seen(@, da_capacity(heap', darr'))]
    /\ UNCHANGED <<before, iter, abstract>>

NextPush == TracePush

SpecPush == InitPush /\ [][NextPush]_vars

\* ------------------------------ SpecTrip: a filled array, then two calls
\* da_alloc of at most MaxLen elements, pushes that fill the array up to at
\* most MaxN elements (every allocation succeeding), then either a call that
\* adds an element or resizes and a call that takes an element away, or two
\* swaps.  `before` keeps the block each call found behind the handle and the
\* call that was made before it.
Snap ==
    before' = [block |-> IF ValidHandle(heap, darr) THEN heap[darr] ELSE NoBlock,
               call |-> last]

InitTrip ==
    /\ \E nelem \in 0..MaxLen, size \in ElemSizes, mem \in {1} :
          LET r == da_alloc([a \in Addrs |-> NoBlock], nelem, size, mem) IN
          /\ heap = r.heap
          /\ darr = r.ret
          /\ ret = r.ret
          /\ last = Call("alloc", nelem, size, Undef, "ok", FALSE)
    /\ backup = NULL
    /\ ub = "none"
    /\ crashed = FALSE
    /\ nops = 0
    /\ trace = NoTrace
    /\ before = Nothing
    /\ iter = NoIter
    /\ abstract = <<>>

\* The push that finds the array k long pushes the value k (mod the number
\* of values).
FillPush ==
    /\ ValidHandle(heap, darr)
    /\ da_length(heap, darr) < MaxN
    /\ PushOp({(da_length(heap, darr) % MaxVal) + 1}, Addrs)

TripFill == nops = 0 /\ FillPush /\ Snap /\ UNCHANGED <<nops, trace, iter, abstract>>

First  == ~crashed /\ nops = 0
Second == ~crashed /\ nops = 1
Tripped == nops' = nops + 1 /\ Snap /\ UNCHANGED <<trace, iter, abstract>>

TripPush       == First /\ PushOp(Values, AnyOutcome) /\ Tripped
TripSafePush   == First /\ SafePushOp /\ Tripped
TripInsert     == First /\ InsertOp(Values, AnyOutcome) /\ Tripped
TripSafeInsert == First /\ SafeInsertOp /\ Tripped
TripResize     == First /\ ResizeOp /\ Tripped
TripSwap       == (First \/ (Second /\ last.op = "swap")) /\ SwapOp /\ Tripped
TripPop        == Second /\ last.op # "swap" /\ PopOp /\ Tripped
TripRemove     == Second /\ last.op # "swap" /\ RemoveOp /\ Tripped

NextTrip ==
    \/ TripFill
    \/ TripPush
    \/ TripSafePush
    \/ TripInsert
    \/ TripSafeInsert
    \/ TripResize
    \/ TripSwap
    \/ TripPop
    \/ TripRemove

SpecTrip == InitTrip /\ [][NextTrip]_vars

\* ------------------------------------- SpecIter: traversals of an array
\* da_alloc of at most MaxLen elements, pushes that fill the array up to at
\* most MaxN elements, and then one traversal, forward or reverse, whose body
\* notes the position of itername and leaves the array alone.  One step of a
\* loop is one test of its condition, with the body and the increment when
\* the test passes.
Looping ==
    UNCHANGED <<heap, darr, backup, ret, last, ub, crashed, nops, trace, before,
                abstract>>

IterFill ==
    /\ iter.loop = "none"
    /\ FillPush
    /\ UNCHANGED <<nops, trace, before, iter, abstract>>

ForeachBegin ==
    /\ iter.loop = "none" /\ ValidHandle(heap, darr)
    /\ iter' = [loop |-> "foreach", itername |-> _da_foreach_init(heap, darr),
                seen |-> <<>>, done |-> FALSE]
    /\ Looping

ForeachStep ==
    /\ iter.loop = "foreach" /\ ~iter.done
    /\ iter' = IF _da_foreach_cond(heap, darr, iter.itername)
               THEN [iter EXCEPT !.seen = Append(@, iter.itername),
                                 !.itername = _da_foreach_next(@)]
               ELSE [iter EXCEPT !.done = TRUE]
    /\ Looping

ForeachrBegin ==
    /\ iter.loop = "none" /\ ValidHandle(heap, darr)
    /\ iter' = [loop |-> "foreachr", itername |-> _da_foreachr_init(heap, darr),
                seen |-> <<>>, done |-> FALSE]
    /\ Looping

ForeachrStep ==
    /\ iter.loop = "foreachr" /\ ~iter.done
    /\ iter' = IF _da_foreachr_cond(heap, darr, iter.itername)
               THEN [iter EXCEPT !.seen = Append(@, iter.itername),
                                 !.itername = _da_foreachr_next(@)]
               ELSE [iter EXCEPT !.done = TRUE]
    /\ Looping

NextIter ==
    \/ IterFill
    \/ ForeachBegin
    \/ ForeachStep
    \/ ForeachrBegin
    \/ ForeachrStep

\* A loop that was entered keeps running: nothing else runs in the client.
SpecIter ==
    /\ InitTrip /\ [][NextIter]_vars
    /\ WF_vars(ForeachStep) /\ WF_vars(ForeachrStep)

\* ---------------------------------- SpecBounds: long runs of appends
\* da_alloc of at most MaxLen elements and then appends, by push or by insert
\* at index length, up to NPush elements, every reallocation succeeding; the
\* append that finds the array k long puts the value k (mod the number of
\* values).  Once in the run the client makes one other call: a resize, a
\* reserve, an insert anywhere, a pop or a remove.
Bounded == ~crashed /\ ValidHandle(heap, darr) /\ da_length(heap, darr) < NPush
NextValue == {(da_length(heap, darr) % MaxVal) + 1}
Once == ~crashed /\ nops = 0

\* da_insert(darr, da_length(darr), value)
AppendOp ==
    /\ ValidHandle(heap, darr)
    /\ \E value \in NextValue, ptr \in GrowthOutcomes(heap, darr, Addrs) :
          LET index == da_length(heap, darr)
              r == _da_insert(heap, darr, index, value, ptr)
          IN  /\ heap' = r.heap
              /\ darr' = r.darr
              /\ ub' = r.ub
              /\ last' = Call("insert", index, 0, value, AllocRes(heap, darr, ptr), r.grew)
    /\ crashed' \in CrashOutcomes(ub')
    /\ ret' = NULL
    /\ UNCHANGED backup

BoundsPush    == Bounded /\ PushOp(NextValue, Addrs) /\ Uncounted
BoundsAppend  == Bounded /\ AppendOp /\ Uncounted
BoundsInsert  == Once /\ Bounded /\ InsertOp(Values, Addrs) /\ Counted
BoundsResize  == Once /\ ResizeOp /\ Counted
BoundsReserve == Once /\ ReserveOp /\ Counted
BoundsPop     == Once /\ PopOp /\ Counted
BoundsRemove  == Once /\ RemoveOp /\ Counted

NextBounds ==
    \/ BoundsPush
    \/ BoundsAppend
    \/ BoundsInsert
    \/ BoundsResize
    \/ BoundsReserve
    \/ BoundsPop
    \/ BoundsRemove

SpecBounds == InitTrip /\ [][NextBounds]_vars

\* ------------------------ SpecSeq: the calls and the sequence they denote
\* da_alloc(0, size) and then pushes, inserts, pops, removes and reserves,
\* with their preconditions respected and every reallocation of a push or an
\* insert succeeding, on an array kept at most MaxN long.  The push that
\* finds the array k long pushes the value k (mod the number of values); the
\* client makes at most MaxFree calls of the other kinds.  `abstract` is the
\* sequence the client expects: each call applies to it what the call is
\* documented to do, from the arguments the client passed.
InsertAt(s, i, v) == SubSeq(s, 1, i) \o <<v>> \o SubSeq(s, i + 1, Len(s))
DeleteAt(s, i)    == SubSeq(s, 1, i) \o SubSeq(s, i + 2, Len(s))
DropLast(s)       == SubSeq(s, 1, Len(s) - 1)

InitSeq ==
    /\ \E size \in ElemSizes, mem \in Addrs :
          LET r == da_alloc([a \in Addrs |-> NoBlock], 0, size, mem) IN
          /\ heap = r.heap
          /\ darr = r.ret
          /\ ret = r.ret
          /\ last = Call("alloc", 0, size, Undef, "ok", FALSE)
    /\ backup = NULL
    /\ ub = "none"
    /\ crashed = FALSE
    /\ nops = 0
    /\ trace = NoTrace
    /\ before = Nothing
    /\ iter = NoIter
    /\ abstract = <<>>

Room == ~crashed /\ ValidHandle(heap, darr) /\ da_length(heap, darr) < MaxN
Free == ~crashed /\ nops < MaxFree
Noted == UNCHANGED <<trace, before, iter>>

SeqPush ==
    /\ Room /\ PushOp(NextValue, Addrs)
    /\ abstract' = Append(abstract, last'.v)
    /\ UNCHANGED nops /\ Noted

SeqInsert ==
    /\ Free /\ Room /\ InsertOp(Values, Addrs)
    /\ abstract' = InsertAt(abstract, last'.a, last'.v)
    /\ nops' = nops + 1 /\ Noted

SeqPop ==
    /\ Free /\ PopOp
    /\ abstract' = DropLast(abstract)
    /\ nops' = nops + 1 /\ Noted

SeqRemove ==
    /\ Free /\ RemoveOp
    /\ abstract' = DeleteAt(abstract, last'.a)
    /\ nops' = nops + 1 /\ Noted

SeqReserve ==
    /\ Free /\ ReserveOp
    /\ abstract' = abstract
    /\ nops' = nops + 1 /\ Noted

NextSeq ==
    \/ SeqPush
    \/ SeqInsert
    \/ SeqPop
    \/ SeqRemove
    \/ SeqReserve

SpecSeq == InitSeq /\ [][NextSeq]_vars

\* ----------------------------- SpecPop: pops without a precondition
\* da_alloc of at most MaxLen elements, pushes that fill the array up to at
\* most MaxN elements, and at most MaxOps pops, each on whatever array the
\* handle names: the client does not look at the length first.
InitPop == InitTrip

PopFill == nops = 0 /\ FillPush /\ Uncounted
PopAny  == Running /\ PopAnyOp /\ Counted

NextPop ==
    \/ PopFill
    \/ PopAny

SpecPop == InitPop /\ [][NextPop]_vars

\* ================================================================ claims
Block == heap[darr]
Max(a, b) == IF a >= b THEN a ELSE b

\* ---------------------------------------------------------------- C1
\* C1: every live block has length <= capacity after every call of any
\* sequence of calls made with their preconditions respected, whether the
\* call succeeded or failed.
C1_LengthWithinCapacity ==
    \A a \in Addrs : heap[a].live => heap[a].length <= heap[a].capacity

\* A third call that grew the array by an insert.
C1_Witness ==
    /\ nops >= 3 /\ ValidHandle(heap, darr)
    /\ last.op = "insert" /\ last.grew /\ last.res = "ok"
    /\ Block.length <= Block.capacity

\* ---------------------------------------------------------------- C2
\* A call that reallocated for growth and succeeded, and the length L it
\* targeted: nelem for resize, length + nelem for reserve, the length found
\* for a push or an insert.
GrowthDone ==
    /\ ValidHandle(heap, darr)
    /\ last.op \in {"resize", "reserve", "push", "spush", "insert", "sinsert"}
    /\ last.grew /\ last.res = "ok"

GrowthTarget ==
    CASE last.op = "resize"  -> last.a
      [] last.op = "reserve" -> Block.length + last.a
      [] OTHER               -> Block.length - 1

\* ceil(L * 1.3) and floor(L * 1.3)
CeilFactor(L)  == CHOOSE c \in 0..(2 * L) : 10 * (c - 1) < 13 * L /\ 13 * L <= 10 * c
FloorFactor(L) == CHOOSE c \in 0..(2 * L) : 10 * c <= 13 * L /\ 13 * L < 10 * (c + 1)

\* C2 as stated: after a growth targeting L the capacity is
\* max(10, ceil(L * 1.3)).
C2_GrowthFormulaCeil ==
    GrowthDone => Block.capacity = Max(10, CeilFactor(GrowthTarget))

\* C2 as amended: after a growth targeting L the capacity is 10 when L < 10
\* and floor(L * 1.3) when L >= 10.
C2_GrowthFormula ==
    GrowthDone =>
        Block.capacity = IF GrowthTarget < 10 THEN 10 ELSE FloorFactor(GrowthTarget)

\* A growth whose target times 1.3 is no integer.
C2_Witness ==
    GrowthDone /\ GrowthTarget >= 10 /\ (13 * GrowthTarget) % 10 # 0

\* ---------------------------------------------------------------- C3
\* The call l was a safe push or safe insert whose growth failed.
SafeGrowthFailed(l) == l.op \in {"spush", "sinsert"} /\ l.grew /\ l.res = "fail"

\* C3: a safe push or safe insert that finds length = capacity and whose
\* reallocation fails leaves the handle NULL, backup equal to the handle of
\* before the call, and the block at backup live with its header fields and
\* every element as before the call; nothing goes through the NULL handle.
C3_SafeFailure ==
    [][SafeGrowthFailed(last') =>
          /\ darr' = NULL
          /\ backup' = darr
          /\ heap'[backup'].live
          /\ heap'[backup'] = heap[darr]
          /\ ub' = "none"]_vars

C3_Witness ==
    SafeGrowthFailed(last) /\ last.op = "sinsert" /\ darr = NULL /\ backup \in Addrs

\* ---------------------------------------------------------------- C4
\* C4: a resize or reserve whose reallocation fails returns NULL and leaves
\* the block at the original handle live and exactly as before; an allocate
\* whose allocation fails returns NULL and creates no array.
C4_AllocFailure ==
    [][last'.op \in {"resize", "reserve", "alloc"} /\ last'.res = "fail" =>
          /\ ret' = NULL
          /\ heap' = heap
          /\ darr' = darr
          /\ last'.op # "alloc" => heap'[darr].live]_vars

C4_Witness ==
    /\ last.op = "reserve" /\ last.res = "fail" /\ ret = NULL
    /\ ValidHandle(heap, darr) /\ Block.length + last.a > Block.capacity

\* ---------------------------------------------------------------- C5
\* The last call was a fast push or fast insert whose growth failed.
FastGrowthFailed == last.op \in {"push", "insert"} /\ last.grew /\ last.res = "fail"

C6_RemoveReturns ==
    [][last'.op = "remove" =>
          LET k      == last'.a
              popped == _da_pop(heap, darr)
          IN  /\ ret' = heap[darr].data[k]
              /\ heap'[darr'].length = heap[darr].length - 1
              /\ k = heap[darr].length - 1 =>
                    /\ ret' = popped.ret
                    /\ heap'[darr'].length = popped.heap[darr].length]_vars

\* The last element was removed, and it was a pushed value.
C6_Witness ==
    last.op = "remove" /\ last.a = Block.length /\ last.a >= 1 /\ ret \in Values

\* ---------------------------------------------------------------- C7
\* C7: for every k < length, remove(k) with the scratch element and remove(k)
\* by swap and bubble return the same value, leave the same length and the
\* same element at every position of [0, length - 1); the bubble loop ends
\* (after length - 2 - k swaps, none when k >= length - 2) and the fallback
\* leaves the set of allocated blocks as it was.
C7_PathsAgree ==
    ValidHandle(heap, darr) =>
        \A k \in 0..(Block.length - 1) :
            LET scratch == _da_remove(heap, darr, k, 1)
                bubble  == _da_remove(heap, darr, k, NULL)
            IN  /\ scratch.ret = bubble.ret
                /\ scratch.heap[darr].length = bubble.heap[darr].length
                /\ \A i \in 0..(Block.length - 2) :
                      scratch.heap[darr].data[i] = bubble.heap[darr].data[i]
                /\ BubbleSteps(k * Block.elsz, (Block.length - 1) * Block.elsz,
                               Block.elsz) = Max(0, Block.length - 2 - k)
                /\ FreeAddrs(bubble.heap) = FreeAddrs(heap)

\* A remove by the fallback whose loop swapped at least once.
C7_Witness ==
    /\ last.op = "remove" /\ last.res = "swap"
    /\ last.a + 2 <= Block.length
    /\ Block.data[last.a] # Block.data[last.a + 1]

\* ---------------------------------------------------------------- C8
\* C8: remove(k) on an array of length L leaves every element at i < k where
\* it was and puts at every i with k <= i < L - 1 the element that was at
\* i + 1, on both paths.
C8_RemoveShifts ==
    [][last'.op = "remove" =>
          LET k == last'.a
              L == heap[darr].length
          IN  /\ \A i \in 0..(k - 1) : heap'[darr'].data[i] = heap[darr].data[i]
              /\ \A i \in k..(L - 2) : heap'[darr'].data[i] = heap[darr].data[i + 1]]_vars

\* A remove at index 0 with the scratch element that left two different
\* values behind.
C8_Witness ==
    /\ last.op = "remove" /\ last.res = "scratch" /\ last.a = 0
    /\ Block.length >= 2
    /\ Block.data[0] \in Values /\ Block.data[1] \in Values
    /\ Block.data[0] # Block.data[1]

\* ---------------------------------------------------------------- C9
\* C9: reserve(h, n) with capacity - length >= n returns the same handle and
\* leaves the capacity as it was; otherwise, when it succeeds, the capacity
\* ends with capacity - length >= n and larger than before; in both cases the
\* length and the elements of [0, length) are unchanged.
C9_Reserve ==
    [][last'.op = "reserve" /\ last'.res # "fail" =>
          LET n   == last'.a
              old == heap[darr]
              new == heap'[darr']
          IN  /\ new.length = old.length
              /\ \A i \in 0..(old.length - 1) : new.data[i] = old.data[i]
              /\ IF old.capacity - old.length >= n
                 THEN ret' = darr /\ darr' = darr /\ new.capacity = old.capacity
                 ELSE /\ new.capacity - new.length >= n
                      /\ new.capacity > old.capacity]_vars

\* A reserve that had to reallocate, succeeded, and was taken by the caller.
C9_Witness ==
    /\ last.op = "reserve" /\ last.res = "ok" /\ last.grew
    /\ ValidHandle(heap, darr) /\ ret = darr /\ last.a >= 1

\* --------------------------------------------------------------- C10
\* The run of the claim: da_alloc(0, 4) and then 15 pushes.
FifteenPushes == trace.n = 0 /\ trace.size = 4 /\ nops = 15

\* C10 as stated: the distinct capacities seen are 10, 13, 17 and the final
\* length is 15.
C10_TraceCeil ==
    FifteenPushes => trace.caps = <<10, 13, 17>> /\ Block.length = 15

\* C10 as amended: the distinct capacities seen are 10, 13, 16 and the final
\* length is 15.
C10_Trace ==
    FifteenPushes => trace.caps = <<10, 13, 16>> /\ Block.length = 15

C10_Witness ==
    FifteenPushes /\ ValidHandle(heap, darr) /\ Block.capacity > Block.length

\* --------------------------------------------------------------- C11
\* The call l was an insert, fast or safe, that succeeded.
InsertDone(l) == l.op \in {"insert", "sinsert"} /\ l.res = "ok"

\* C11: a successful insert(i, v), fast or safe, with or without growth, on
\* an array of length L with 0 <= i <= L leaves the elements of [0, i) as
\* they were, puts v at i, puts at j + 1 each element that was at j in
\* [i, L), and sets the length to L + 1; insert(L, v) leaves the heap and the
\* handle as push(v) does.
C11_Insert ==
    [][InsertDone(last') =>
          LET i   == last'.a
              v   == last'.v
              old == heap[darr]
              new == heap'[darr']
              L   == old.length
          IN  /\ ub' = "none"
              /\ \A j \in 0..(i - 1) : new.data[j] = old.data[j]
              /\ new.data[i] = v
              /\ \A j \in i..(L - 1) : new.data[j + 1] = old.data[j]
              /\ new.length = L + 1
              /\ i = L =>
                    LET p == _da_push(heap, darr, v,
                                      IF last'.grew THEN darr' ELSE NULL)
                    IN  p.darr = darr' /\ p.heap = heap']_vars

\* A safe insert into the middle of a full array, between two different
\* pushed values: it grew the block and moved the tail.
C11_Witness ==
    /\ InsertDone(last) /\ last.op = "sinsert" /\ last.grew
    /\ last.a >= 1 /\ last.a + 2 < Block.length
    /\ Block.data[last.a - 1] \in Values
    /\ Block.data[last.a + 1] \in Values
    /\ Block.data[last.a + 1] # Block.data[last.a + 2]
    /\ Block.length = before.block.length + 1

\* --------------------------------------------------------------- C12
\* The call l was a push, fast or safe, that succeeded.
PushDone(l) == l.op \in {"push", "spush"} /\ l.res = "ok"

\* C12: a pop made right after a successful push(v) returns v, leaves the
\* length the array had before the push and every element of [0, length) as
\* it was before the push, whether the push grew the block or not.
C12_PushPop ==
    [][PushDone(last) /\ last'.op = "pop" =>
          LET old == before.block
              new == heap'[darr']
          IN  /\ ret' = last.v
              /\ new.length = old.length
              /\ \A i \in 0..(old.length - 1) : new.data[i] = old.data[i]]_vars

\* A pop right after a fast push that grew a full array of pushed values.
C12_Witness ==
    /\ last.op = "pop" /\ before.call.op = "push" /\ PushDone(before.call)
    /\ before.call.grew /\ nops = 2
    /\ ret = before.call.v
    /\ Block.capacity > DA_CAPACITY_MIN
    /\ Block.length >= 2 /\ Block.data[0] # Block.data[1]

\* --------------------------------------------------------------- C13
\* C13: a remove(i) made right after a successful insert(i, v), fast or safe,
\* returns v and leaves the length the array had before the insert, with the
\* scratch element and without it.
C13_InsertRemove ==
    [][InsertDone(last) /\ last'.op = "remove" /\ last'.a = last.a =>
          /\ ret' = last.v
          /\ heap'[darr'].length = before.block.length]_vars

\* A remove by swap and bubble right after an insert into the middle of a
\* full array, which grew the block; the bubble loop swapped at least once.
C13_Witness ==
    /\ last.op = "remove" /\ last.res = "swap" /\ nops = 2
    /\ before.call.op = "insert" /\ InsertDone(before.call) /\ before.call.grew
    /\ last.a = before.call.a /\ last.a >= 1 /\ last.a + 2 <= Block.length
    /\ ret = before.call.v
    /\ Block.length = DA_CAPACITY_MIN

\* --------------------------------------------------------------- C14
\* The call l was a resize that succeeded.
ResizeDone(l) == l.op = "resize" /\ l.res = "ok"

\* C14 as stated: a successful resize(h, n) sets the length to n and the
\* capacity to max(10, ceil(n * 1.3)), whatever the capacity was, leaves the
\* element size as it was and keeps every element below min(old length, n).
C14_ResizeCeil ==
    [][ResizeDone(last') =>
          LET n   == last'.a
              old == heap[darr]
              new == heap'[darr']
          IN  /\ new.length = n
              /\ new.capacity = Max(10, CeilFactor(n))
              /\ new.elsz = old.elsz
              /\ \A i \in 0..(n - 1) : i < old.length => new.data[i] = old.data[i]]_vars

\* C14 as amended: a successful resize(h, n) sets the length to n and the
\* capacity to 10 when n < 10 and to floor(n * 1.3) when n >= 10, whatever
\* the capacity was (so it is recomputed when the old capacity held n
\* elements, and may decrease), leaves the element size as it was and keeps
\* every element below min(old length, n).
C14_Resize ==
    [][ResizeDone(last') =>
          LET n   == last'.a
              old == heap[darr]
              new == heap'[darr']
          IN  /\ ret' = darr' /\ new.live
              /\ new.length = n
              /\ new.capacity = IF n < 10 THEN 10 ELSE FloorFactor(n)
              /\ new.elsz = old.elsz
              /\ \A i \in 0..(n - 1) : i < old.length => new.data[i] = old.data[i]]_vars

\* A resize to fewer elements than the old capacity held, which lowered the
\* capacity and kept two different pushed values.
C14_Witness ==
    /\ ResizeDone(last) /\ ValidHandle(heap, darr)
    /\ last.a <= before.block.capacity
    /\ Block.capacity < before.block.capacity
    /\ Block.length = last.a /\ last.a >= 2
    /\ Block.data[0] \in Values /\ Block.data[1] \in Values
    /\ Block.data[0] # Block.data[1]

\* --------------------------------------------------------------- C15
\* C15: a successful allocate(n, sz) returns a handle to a live array with
\* length n, capacity at least n and element size sz, for every n and sz.
C15_Alloc ==
    [][last'.op = "alloc" /\ last'.res = "ok" =>
          /\ ret' = darr'
          /\ ValidHandle(heap', darr')
          /\ da_length(heap', darr') = last'.a
          /\ da_capacity(heap', darr') >= last'.a
          /\ da_sizeof_elem(heap', darr') = last'.b]_vars

\* An allocation of more elements than the minimum capacity, 4 bytes each.
C15_Witness ==
    /\ last.op = "alloc" /\ last.res = "ok" /\ ValidHandle(heap, darr)
    /\ last.a > DA_CAPACITY_MIN /\ last.b = 4
    /\ Block.length = last.a /\ Block.elsz = 4

\* --------------------------------------------------------------- C16
\* C16: swap(i, j) with i, j < length, i = j included, puts in slot i what
\* was in slot j and in slot j what was in slot i, and leaves every other
\* slot, the length, the capacity and the handle as they were; a second
\* swap(i, j) right after it leaves in slots i and j what the first swap
\* found there.
C16_Swap ==
    [][last'.op = "swap" =>
          LET i   == last'.a
              j   == last'.b
              old == heap[darr]
              new == heap'[darr']
          IN  /\ darr' = darr
              /\ new.data[i] = old.data[j]
              /\ new.data[j] = old.data[i]
              /\ \A k \in DOMAIN old.data \ {i, j} : new.data[k] = old.data[k]
              /\ DOMAIN new.data = DOMAIN old.data
              /\ new.length = old.length
              /\ new.capacity = old.capacity
              /\ last.op = "swap" /\ last.a = i /\ last.b = j =>
                    /\ new.data[i] = before.block.data[i]
                    /\ new.data[j] = before.block.data[j]]_vars

\* The second of two swaps of the same two slots, which hold different
\* pushed values.
C16_Witness ==
    /\ last.op = "swap" /\ before.call.op = "swap" /\ nops = 2
    /\ last.a = before.call.a /\ last.b = before.call.b /\ last.a # last.b
    /\ Block.data[last.a] \in Values /\ Block.data[last.b] \in Values
    /\ Block.data[last.a] # Block.data[last.b]
    /\ before.block.data[last.a] = Block.data[last.b]

\* --------------------------------------------------------------- C17
\* The positions 0, 1, ..., L - 1 and L - 1, ..., 1, 0.
Increasing(L) == [k \in 1..L |-> k - 1]
Decreasing(L) == [k \in 1..L |-> L - k]

\* The positions visited so far start the sequence s.
VisitedStarts(s) ==
    /\ Len(iter.seen) <= Len(s)
    /\ \A k \in 1..Len(iter.seen) : iter.seen[k] = s[k]

\* C17: a forward traversal visits the positions 0, 1, ..., length - 1 in
\* this order and a reverse traversal length - 1, ..., 1, 0 in this order,
\* each position once and no other; both end; on an array of length 0
\* neither visits a position.
C17_Traversal ==
    /\ [](iter.loop = "foreach" =>
            /\ VisitedStarts(Increasing(Block.length))
            /\ iter.done => iter.seen = Increasing(Block.length))
    /\ [](iter.loop = "foreachr" =>
            /\ VisitedStarts(Decreasing(Block.length))
            /\ iter.done => iter.seen = Decreasing(Block.length))
    /\ [](iter.done /\ Block.length = 0 => iter.seen = <<>>)
    /\ (iter.loop # "none") ~> iter.done

\* A reverse traversal of three or more elements that has ended.
C17_Witness ==
    /\ iter.loop = "foreachr" /\ iter.done
    /\ Block.length >= 3 /\ Len(iter.seen) = Block.length
    /\ iter.seen[1] = Block.length - 1 /\ iter.seen[Block.length] = 0

\* --------------------------------------------------------------- C18
\* C18: a safe push or safe insert called with length < capacity leaves the
\* handle, the heap (length, capacity, contents) exactly as the fast push or
\* fast insert with the same arguments does, and leaves backup as it was;
\* called with length = capacity it leaves in backup the handle of before the
\* call, whether the reallocation succeeds, moves the block or fails.
C18_SafeAsFast ==
    [][last'.op \in {"spush", "sinsert"} =>
          LET fast == IF last'.op = "spush"
                      THEN _da_push(heap, darr, last'.v, NULL)
                      ELSE _da_insert(heap, darr, last'.a, last'.v, NULL)
          IN  /\ last'.grew <=> da_length(heap, darr) = da_capacity(heap, darr)
              /\ IF da_length(heap, darr) < da_capacity(heap, darr)
                 THEN /\ darr' = fast.darr
                      /\ heap' = fast.heap
                      /\ ub' = fast.ub
                      /\ backup' = backup
                 ELSE backup' = darr]_vars

\* A safe insert into the middle of an array with room left: backup is
\* still the NULL it was set to at the start.
C18_Witness ==
    /\ last.op = "sinsert" /\ ~last.grew /\ ValidHandle(heap, darr)
    /\ backup = NULL
    /\ last.a >= 1 /\ last.a + 1 < Block.length
    /\ Block.length < Block.capacity
    /\ Block.data[last.a] # Block.data[last.a + 1]

\* --------------------------------------------------------------- C19
\* The call l cannot reallocate: a pop, a remove, a fill, a swap, a reserve
\* that found room, or a push or insert that found length < capacity.
NoRealloc(l) ==
    \/ l.op \in {"pop", "remove", "fill", "swap"}
    \/ l.op = "reserve" /\ l.res = "noop"
    \/ l.op \in {"push", "spush", "insert", "sinsert"} /\ ~l.grew

\* C19: no call changes the element size of the array behind the handle;
\* pop, remove on both paths, fill, swap, a reserve that found room and a
\* push or insert that found length < capacity leave the handle, the
\* capacity and the element size as they were, and leave every block of the
\* heap where it was and as large as it was.
C19_Frame ==
    [][/\ ValidHandle(heap, darr) /\ ValidHandle(heap', darr') =>
             da_sizeof_elem(heap', darr') = da_sizeof_elem(heap, darr)
       /\ NoRealloc(last') =>
             /\ last'.op \in {"push", "spush", "insert", "sinsert"} =>
                   da_length(heap, darr) < da_capacity(heap, darr)
             /\ darr' = darr
             /\ da_capacity(heap', darr') = da_capacity(heap, darr)
             /\ da_sizeof_elem(heap', darr') = da_sizeof_elem(heap, darr)
             /\ \A a \in Addrs :
                   /\ heap'[a].live = heap[a].live
                   /\ DOMAIN heap'[a].data = DOMAIN heap[a].data]_vars

\* A remove with the scratch element, as the third call, on an array whose
\* capacity is above the minimum.
C19_Witness ==
    /\ last.op = "remove" /\ last.res = "scratch" /\ ValidHandle(heap, darr)
    /\ nops = 3
    /\ Block.capacity > DA_CAPACITY_MIN
    /\ Block.length < Block.capacity

\* --------------------------------------------------------------- C20
\* The call l was a push or an insert, fast or safe, that succeeded.
AddDone(l) == PushDone(l) \/ InsertDone(l)

\* C20: in every run of allocate, resize, reserve, push, insert, pop and
\* remove with their preconditions respected, a push or insert that finds the
\* array L long and succeeds writes inside the allocated slots: when it grew
\* the block the new capacity is larger than L, the slot L that push writes
\* and the slots index .. L that insert touches are below the capacity, the
\* block holds as many slots as its capacity says, and no store goes past
\* them.
C20_InBounds ==
    [][AddDone(last') =>
          LET L   == da_length(heap, darr)
              new == heap'[darr']
          IN  /\ ub' = "none"
              /\ last'.grew => new.capacity > L
              /\ last'.a <= L /\ L < new.capacity
              /\ DOMAIN new.data = 0..(new.capacity - 1)
              /\ new.length = L + 1]_vars

\* An insert before the last element that grew an array which had grown
\* before: more than 13 elements, still inside the capacity.
C20_Witness ==
    /\ InsertDone(last) /\ last.grew /\ ValidHandle(heap, darr)
    /\ last.a + 1 < Block.length
    /\ Block.length > 13
    /\ Block.length <= Block.capacity
    /\ ub = "none"

\* ---------------------------------------------------------------- C21
\* The elements at [0, length) of the array behind the handle, in order.
Elements(h, d) == [k \in 1..da_length(h, d) |-> h[d].data[k - 1]]

\* C21: starting from da_alloc(0, size), after any sequence of successful
\* push, insert, pop and remove calls made with their preconditions respected
\* (either path of remove), and of reserves, the elements at [0, length) are
\* the sequence obtained by applying append, insert-at-i, drop-last and
\* delete-at-i in the same order; a growth that relocates the block keeps
\* every element at its position.
C21_Refinement ==
    /\ ValidHandle(heap, darr)
    /\ Elements(heap, darr) = abstract

\* An insert in the middle that grew the full array, as the second call of
\* the run that was no push.
C21_Witness ==
    /\ last.op = "insert" /\ last.grew /\ last.res = "ok"
    /\ last.a > 0 /\ last.a < Block.length - 1
    /\ nops = 2
    /\ Len(abstract) = DA_CAPACITY_MIN + 1
    /\ Elements(heap, darr) = abstract

\* ---------------------------------------------------------------- C22
\* C22: da_pop never fails for any valid handle, including one whose length
\* is 0: the call runs through without undefined behaviour, and after it the
\* length has not increased and length <= capacity holds.
C22_PopNeverFails ==
    [][last'.op = "pop" /\ ValidHandle(heap, darr) =>
          /\ ub' = "none" /\ ~crashed'
          /\ da_length(heap', darr') <= da_length(heap, darr)
          /\ da_length(heap', darr') <= da_capacity(heap', darr')]_vars

====
